---- MODULE Spec2Model ----
(***************************************************************************)
(* Attendance-marking pipeline of the Moshrif backend: the schedule        *)
(* resolver (main.py get_current_course), the eligibility guard and        *)
(* recorder (database_handler.py DatabaseHandler.mark_attendance), the     *)
(* /api/attendance/mark and /api/attendance/manual handlers and the e-mail *)
(* notifier run as a background task.  Every SQL statement of a handler is *)
(* one step of the request that executes it, so requests served by         *)
(* different worker threads interleave between statements.                 *)
(***************************************************************************)
EXTENDS Integers, Sequences, FiniteSets, Bags, TLC

\* ------------------------------------------------------------ bounds
NumProcs == 2
MaxDay == 1
MaxRequests == 2

Procs == 1..NumProcs
Days == 0..MaxDay

\* ------------------------------------------------------------ time
\* Seconds since midnight of the instants the wall clock is observed at:
\* 09:00:00, 10:00:01, 23:59:59.
Instants == <<32400, 36001, 86399>>

WeekDays == <<"Monday", "Tuesday", "Wednesday", "Thursday", "Friday", "Saturday", "Sunday">>

\* now.strftime("%A"); day 0 of the model is a Monday.
DayOfWeek(d) == WeekDays[(d % 7) + 1]

\* now.strftime("%H:%M"): the four digits of the zero-padded hour and minute
\* (the colon sits at the same place in every such string); seconds are dropped.
HM(t) == << (t \div 3600) \div 10, (t \div 3600) % 10,
            ((t % 3600) \div 60) \div 10, ((t % 3600) \div 60) % 10 >>

\* SQLite's comparison of two TEXT values: byte-wise, lexicographic.
RECURSIVE StrLE(_, _)
StrLE(a, b) ==
    IF a = <<>> THEN TRUE
    ELSE IF b = <<>> THEN FALSE
    ELSE IF Head(a) < Head(b) THEN TRUE
    ELSE IF Head(a) > Head(b) THEN FALSE
    ELSE StrLE(Tail(a), Tail(b))

\* x BETWEEN lo AND hi
Between(x, lo, hi) == StrLE(lo, x) /\ StrLE(x, hi)

\* The time of day a manual edit records for a date other than today.
NominalTime == 32400

\* ------------------------------------------------------------ tables
NoEmail == ""

\* students(student_id, name, email); s9 is an id the table does not hold.
students ==
    { [student_id |-> "s1", name |-> "Islam", email |-> "islam@gmail.com"],
      [student_id |-> "s2", name |-> "Sarah", email |-> "student0@uni.edu"],
      [student_id |-> "s3", name |-> "Omar",  email |-> NoEmail] }

StudentIds == {"s1", "s2", "s3", "s9"}

\* courses(course_code, course_name, ...)
courses ==
    { [course_code |-> "CS101", course_name |-> "Intro to AI"],
      [course_code |-> "MATH2", course_name |-> "Linear Algebra"] }

CourseCodes == {"CS101", "MATH2"}

\* registrations(student_id, course_code); foreign keys are not enforced on
\* the API's connections, so a registration may name an id students lacks.
registrations ==
    { <<"s1", "CS101">>, <<"s1", "MATH2">>, <<"s2", "MATH2">>,
      <<"s3", "CS101">>, <<"s9", "CS101">> }

\* lecture_schedule(id, course_code, room_number, day_of_week, start_time, end_time)
lecture_schedule ==
    { [id |-> 1, course_code |-> "CS101", room_number |-> "Hall_1",
       day_of_week |-> "Monday", start_time |-> <<0,9,0,0>>, end_time |-> <<1,0,0,0>>],
      [id |-> 2, course_code |-> "MATH2", room_number |-> "Hall_1",
       day_of_week |-> "Monday", start_time |-> <<1,0,0,1>>, end_time |-> <<1,1,0,0>>],
      [id |-> 3, course_code |-> "MATH2", room_number |-> "Hall_1",
       day_of_week |-> "Monday", start_time |-> <<2,3,0,0>>, end_time |-> <<2,3,5,9>>],
      [id |-> 4, course_code |-> "CS101", room_number |-> "Hall_1",
       day_of_week |-> "Tuesday", start_time |-> <<0,9,0,0>>, end_time |-> <<1,0,0,0>>],
      [id |-> 5, course_code |-> "OLD99", room_number |-> "Hall_2",
       day_of_week |-> "Monday", start_time |-> <<0,9,0,0>>, end_time |-> <<1,0,0,0>>],
      [id |-> 6, course_code |-> "CS101", room_number |-> "Hall_3",
       day_of_week |-> "Monday", start_time |-> <<0,9,0,0>>, end_time |-> <<1,0,0,0>>],
      [id |-> 7, course_code |-> "MATH2", room_number |-> "Hall_3",
       day_of_week |-> "Monday", start_time |-> <<0,9,0,0>>, end_time |-> <<1,0,0,0>>] }

\* The rooms whose windows do not overlap.
Rooms == {"Hall_1", "Hall_2"}
\* The room two courses are scheduled in over the same window.
OverlapRoom == "Hall_3"

\* ------------------------------------------------------------ values
NoCourse == [code |-> "", name |-> ""]
NoStudent == [student_id |-> "", name |-> "", email |-> NoEmail]
NoDate == 0 - 1
NoTime == [date |-> NoDate, time |-> 0]
NoReq == [kind |-> "", student_id |-> "", room_number |-> "",
          course_code |-> "", status |-> "", date |-> NoDate]
NoTx == [ins |-> {}, del |-> {}]

Outcome(st, msg, email, name) ==
    [status |-> st, message |-> msg, email |-> email, student_name |-> name]
NoResult == Outcome("", <<>>, NoEmail, "")

\* The outcomes of /api/attendance/mark.
NoActiveLecture == Outcome("error", <<"No active lecture found at this time!">>, NoEmail, "")
NotFound == Outcome("error", <<"Student ID not found">>, NoEmail, "")
NotRegistered(code) == Outcome("error", <<"Not Registered for", code>>, NoEmail, "")
AlreadyMarked(name) == Outcome("warning", <<"Already marked:", name>>, NoEmail, "")
Success(st) == Outcome("success", <<"Welcome", st.name>>, st.email, st.name)
InternalError == Outcome("error", <<"Internal Database Error">>, NoEmail, "")
\* The outcome of /api/attendance/manual.
ManualSuccess == Outcome("success", <<>>, NoEmail, "")

\* The request answered last: what was asked, the course and day it was about
\* and the outcome returned.
NoLast == [kind |-> "", student_id |-> "", course_code |-> "", date |-> NoDate,
           edit |-> "", status |-> ""]

\* ------------------------------------------------------------ state
VARIABLES
    clock,           \* the wall clock: [date, i], the time of day is Instants[i]
    last,            \* the request answered last (recorded for sequential callers)
    attendance_log,  \* the committed rows of attendance_log
    next_id,         \* the next AUTOINCREMENT id of attendance_log
    db_lock,         \* the request holding the database write lock, 0 if none
    local,           \* each worker's request and the locals of its handler
    tasks,           \* the bag of background tasks released by sent responses
    mail_event,      \* what the notifier did with the task it ran last
    nreq             \* the number of requests received

vars == <<clock, attendance_log, next_id, db_lock, local, tasks, mail_event, nreq,
          last>>

Idle == [pc |-> "idle", req |-> NoReq, active_course |-> NoCourse, now |-> NoTime,
         student |-> NoStudent, result |-> NoResult, target_date |-> NoDate,
         is_today |-> FALSE, timestamp |-> NoTime, tx |-> NoTx, bg |-> {}]

\* datetime.now()
Now == [date |-> clock.date, time |-> Instants[clock.i]]

\* ------------------------------------------------------------ schedule resolver
\* The rows of lecture_schedule JOIN courses the WHERE clause selects.
MatchingWindows(room_number, now) ==
    { w \in lecture_schedule :
        /\ \E c \in courses : c.course_code = w.course_code
        /\ w.room_number = room_number
        /\ w.day_of_week = DayOfWeek(now.date)
        /\ Between(HM(now.time), w.start_time, w.end_time) }

CourseName(code) == (CHOOSE c \in courses : c.course_code = code).course_name

\* What get_current_course may return: None when the query selects no row,
\* and otherwise the course of the row fetchone() takes.  The query has no
\* ORDER BY, so which of several selected rows comes first is the engine's
\* choice and not the code's: each of them is a possible answer.
get_current_course(room_number, now) ==
    LET m == MatchingWindows(room_number, now) IN
    IF m = {} THEN {NoCourse}
    ELSE { [code |-> w.course_code, name |-> CourseName(w.course_code)] : w \in m }

\* ------------------------------------------------------------ store queries
\* date(timestamp) of a row written as "%Y-%m-%d %H:%M:%S"
SqlDate(timestamp) == timestamp.date

\* The same query with the date() call forgotten: the whole timestamp text is
\* compared with the day, and no row written by the handlers equals it.
SameDayRowsWholeText(student_id, course_code, date) ==
    { r \in attendance_log :
        /\ r.student_id = student_id
        /\ r.course_code = course_code
        /\ <<r.timestamp.date, r.timestamp.time>> = <<date>> }

\* SELECT id FROM attendance_log WHERE student_id=? AND course_code=? AND date(timestamp)=?
SameDayRows(student_id, course_code, date) ==
    { r \in attendance_log :
        /\ r.student_id = student_id
        /\ r.course_code = course_code
        /\ SqlDate(r.timestamp) = date }

\* SELECT name, email FROM students WHERE student_id = ?
FindStudent(student_id) ==
    IF \E s \in students : s.student_id = student_id
    THEN CHOOSE s \in students : s.student_id = student_id
    ELSE NoStudent

\* SELECT id FROM registrations WHERE student_id = ? AND course_code = ?
IsRegistered(student_id, course_code) == <<student_id, course_code>> \in registrations

Row(id, student_id, course_code, timestamp, method) ==
    [id |-> id, student_id |-> student_id, course_code |-> course_code,
     timestamp |-> timestamp, status |-> "Present", method |-> method]

Task(to_email, student_name, course_name, time) ==
    [to_email |-> to_email, student_name |-> student_name,
     course_name |-> course_name, time |-> time]

InstitutionalEmails == {"student0@uni.edu"}

\* "uni.edu" in to_email
HasUniEdu(to_email) == to_email \in InstitutionalEmails

NoTask == Task(NoEmail, "", "", <<>>)
NoMail == [task |-> NoTask, outcome |-> ""]

\* The rows a seeded database holds at start (fill_data.py, method Auto): none,
\* or one of student s1 for CS101 on day 0.
SeedLogs == { {}, {Row(1, "s1", "CS101", [date |-> 0, time |-> NominalTime], "Auto")} }

Set(p, rec) == local' = [local EXCEPT ![p] = rec]

\* The locals of a handler that starts on a request.
Fresh(p, req) == [Idle EXCEPT !.req = req]

\* ------------------------------------------------------------ /api/attendance/mark
\* The guard without its registration check.
check_eligibility_unregistered(student_id, course_code) ==
    IF FindStudent(student_id) = NoStudent THEN NotFound ELSE NoResult

\* The guard with the registration looked up before the student.
check_eligibility_swapped(student_id, course_code) ==
    IF ~IsRegistered(student_id, course_code) THEN NotRegistered(course_code)
    ELSE IF FindStudent(student_id) = NoStudent THEN NotFound
    ELSE NoResult

\* The guard with the same-day record looked up first.
check_eligibility_duplicate_first(student_id, course_code) ==
    IF SameDayRows(student_id, course_code, Now.date) # {}
    THEN AlreadyMarked(FindStudent(student_id).name)
    ELSE IF FindStudent(student_id) = NoStudent THEN NotFound
    ELSE IF ~IsRegistered(student_id, course_code) THEN NotRegistered(course_code)
    ELSE NoResult

\* Steps 1 and 2 of DatabaseHandler.mark_attendance: NoResult when both pass.
check_eligibility(student_id, course_code) ==
    IF FindStudent(student_id) = NoStudent THEN NotFound
    ELSE IF ~IsRegistered(student_id, course_code) THEN NotRegistered(course_code)
    ELSE NoResult

\* The request arrives and the handler resolves the room's course.
StartMark(p, student_id, room_number) ==
    /\ local[p].pc = "idle"
    /\ nreq < MaxRequests
    /\ nreq' = nreq + 1
    /\ \E active_course \in get_current_course(room_number, Now) :
          LET req == [NoReq EXCEPT !.kind = "mark",
                                  !.student_id = student_id, !.room_number = room_number]
          IN  IF active_course = NoCourse
              THEN Set(p, [Fresh(p, req) EXCEPT !.result = NoActiveLecture, !.pc = "done"])
              ELSE Set(p, [Fresh(p, req) EXCEPT !.active_course = active_course,
                                                !.pc = "m_guard"])
    /\ UNCHANGED <<clock, attendance_log, next_id, db_lock, tasks, mail_event, last>>

\* now = datetime.now(); student lookup; registration lookup.
MarkGuard(p) ==
    /\ local[p].pc = "m_guard"
    /\ LET l == local[p]
           r == check_eligibility(l.req.student_id, l.active_course.code)
       IN  IF r # NoResult
           THEN Set(p, [l EXCEPT !.now = Now, !.result = r, !.pc = "m_notify"])
           ELSE Set(p, [l EXCEPT !.now = Now, !.student = FindStudent(l.req.student_id),
                                 !.pc = "m_dup"])
    /\ UNCHANGED <<clock, attendance_log, next_id, db_lock, tasks, mail_event, nreq, last>>

\* The duplicate check against the rows committed so far.
MarkDup(p) ==
    /\ local[p].pc = "m_dup"
    /\ LET l == local[p] IN
       IF SameDayRows(l.req.student_id, l.active_course.code, l.now.date) # {}
       THEN Set(p, [l EXCEPT !.result = AlreadyMarked(l.student.name), !.pc = "m_notify"])
       ELSE Set(p, [l EXCEPT !.pc = "m_insert"])
    /\ UNCHANGED <<clock, attendance_log, next_id, db_lock, tasks, mail_event, nreq, last>>

\* The row mark_attendance inserts.
CameraRow(l) == Row(next_id, l.req.student_id, l.active_course.code, l.now, "Camera")

\* INSERT opens the write transaction: it waits while another connection holds
\* the write lock; the row stays invisible to the others until the commit.
MarkInsert(p) ==
    /\ local[p].pc = "m_insert"
    /\ db_lock = 0
    /\ db_lock' = p
    /\ Set(p, [local[p] EXCEPT !.tx = [ins |-> {CameraRow(local[p])}, del |-> {}],
                               !.pc = "m_commit"])
    /\ UNCHANGED <<clock, attendance_log, next_id, tasks, mail_event, nreq, last>>

\* The committed table after a transaction is applied.
Apply(tx) == { r \in attendance_log : r.id \notin tx.del } \cup tx.ins

MarkCommit(p) ==
    /\ local[p].pc = "m_commit"
    /\ attendance_log' = Apply(local[p].tx)
    /\ next_id' = next_id + Cardinality(local[p].tx.ins)
    /\ db_lock' = 0
    /\ Set(p, [local[p] EXCEPT !.tx = NoTx, !.result = Success(local[p].student),
                               !.pc = "m_notify"])
    /\ UNCHANGED <<clock, tasks, mail_event, nreq, last>>

\* if result["status"] == "success" and result.get("email"): add_task(...)
MarkTasks(l, now) ==
    IF l.result.status = "success" /\ l.result.email # NoEmail
    THEN {Task(l.result.email, l.result.student_name,
               l.active_course.name, HM(now.time))}
    ELSE {}

MarkNotify(p) ==
    /\ local[p].pc = "m_notify"
    /\ Set(p, [local[p] EXCEPT !.bg = MarkTasks(local[p], Now), !.pc = "done"])
    /\ UNCHANGED <<clock, attendance_log, next_id, db_lock, tasks, mail_event, nreq, last>>

\* What is recorded of the request a worker has just answered: the endpoint,
\* the student, course and day the request was about, the status a manual edit
\* asked for and the status of the outcome.
LastOf(l) ==
    [kind |-> l.req.kind,
     student_id |-> l.req.student_id,
     course_code |-> IF l.req.kind = "mark" THEN l.active_course.code ELSE l.req.course_code,
     date |-> IF l.req.kind = "mark" THEN l.now.date ELSE l.target_date,
     edit |-> l.req.status,
     status |-> l.result.status]

\* The response is sent; the background tasks of the request may run from now
\* on.  Every add_task call is a task of its own: equal tasks of two requests
\* are both kept and both run.
Return(p) ==
    /\ local[p].pc = "done"
    /\ tasks' = tasks (+) SetToBag(local[p].bg)
    /\ Set(p, Idle)
    /\ UNCHANGED <<clock, attendance_log, next_id, db_lock, mail_event, nreq, last>>

\* The same, seen by a caller that issues its requests one after the other.
ReturnSeq(p) ==
    /\ local[p].pc = "done"
    /\ tasks' = tasks (+) SetToBag(local[p].bg)
    /\ Set(p, Idle)
    /\ last' = LastOf(local[p])
    /\ UNCHANGED <<clock, attendance_log, next_id, db_lock, mail_event, nreq>>

\* ------------------------------------------------------------ /api/attendance/manual
\* The request arrives; target_date = req.date if req.date else today.
StartManual(p, student_id, course_code, status, date) ==
    /\ local[p].pc = "idle"
    /\ nreq < MaxRequests
    /\ nreq' = nreq + 1
    /\ LET req == [NoReq EXCEPT !.kind = "manual",
                               !.student_id = student_id, !.course_code = course_code,
                               !.status = status, !.date = date]
       IN  Set(p, [Fresh(p, req) EXCEPT
                     !.target_date = IF date # NoDate THEN date ELSE Now.date,
                     !.pc = "u_istoday"])
    /\ UNCHANGED <<clock, attendance_log, next_id, db_lock, tasks, mail_event, last>>

\* is_today = (target_date == datetime.now().strftime("%Y-%m-%d"))
ManualIsToday(p) ==
    /\ local[p].pc = "u_istoday"
    /\ Set(p, [local[p] EXCEPT !.is_today = (local[p].target_date = Now.date),
                               !.pc = "u_timestamp"])
    /\ UNCHANGED <<clock, attendance_log, next_id, db_lock, tasks, mail_event, nreq, last>>

\* The timestamp without the nominal time: the current time whatever the date.
manual_timestamp_now(target_date, is_today, now) == now

\* timestamp = now if is_today else f"{target_date} 09:00:00"
manual_timestamp(target_date, is_today, now) ==
    IF is_today THEN now ELSE [date |-> target_date, time |-> NominalTime]

ManualTimestamp(p) ==
    /\ local[p].pc = "u_timestamp"
    /\ Set(p, [local[p] EXCEPT
                  !.timestamp = manual_timestamp(local[p].target_date, local[p].is_today, Now),
                  !.pc = IF local[p].req.status = "Present" THEN "u_check" ELSE "u_delete"])
    /\ UNCHANGED <<clock, attendance_log, next_id, db_lock, tasks, mail_event, nreq, last>>

\* status == "Present": the existence check for the target date.
ManualCheck(p) ==
    /\ local[p].pc = "u_check"
    /\ LET l == local[p] IN
       IF SameDayRows(l.req.student_id, l.req.course_code, l.target_date) # {}
       THEN Set(p, [l EXCEPT !.pc = "u_commit"])
       ELSE Set(p, [l EXCEPT !.pc = "u_insert"])
    /\ UNCHANGED <<clock, attendance_log, next_id, db_lock, tasks, mail_event, nreq, last>>

\* if s_info and s_info[1] and c_info: add_task(...)
ManualTasks(l) ==
    LET s_info == FindStudent(l.req.student_id) IN
    IF /\ s_info # NoStudent
       /\ s_info.email # NoEmail
       /\ \E c \in courses : c.course_code = l.req.course_code
    THEN {Task(s_info.email, s_info.name, CourseName(l.req.course_code),
               <<l.timestamp.date, l.timestamp.time>>)}
    ELSE {}

\* INSERT (method Manual), then the student and course lookups and add_task:
\* all of it before the commit.
ManualInsert(p) ==
    /\ local[p].pc = "u_insert"
    /\ db_lock = 0
    /\ db_lock' = p
    /\ LET l == local[p] IN
       Set(p, [l EXCEPT
                 !.tx = [ins |-> {Row(next_id, l.req.student_id, l.req.course_code,
                                      l.timestamp, "Manual")},
                         del |-> {}],
                 !.bg = ManualTasks(l),
                 !.pc = "u_commit"])
    /\ UNCHANGED <<clock, attendance_log, next_id, tasks, mail_event, nreq, last>>

\* The DELETE narrowed to the rows a manual edit wrote.
DeletedIdsManualOnly(student_id, course_code, date) ==
    { r.id : r \in { x \in SameDayRows(student_id, course_code, date) :
                       x.method = "Manual" } }

\* The DELETE without its student_id term: every student of the course and day.
DeletedIdsAnyStudent(student_id, course_code, date) ==
    { r.id : r \in { x \in attendance_log :
                       x.course_code = course_code /\ SqlDate(x.timestamp) = date } }

\* DELETE FROM attendance_log WHERE student_id=? AND course_code=? AND date(timestamp)=?
DeletedIds(student_id, course_code, date) ==
    { r.id : r \in SameDayRows(student_id, course_code, date) }

\* Any other status: DELETE the rows of (student, course, target date).
ManualDelete(p) ==
    /\ local[p].pc = "u_delete"
    /\ db_lock = 0
    /\ db_lock' = p
    /\ LET l == local[p] IN
       Set(p, [l EXCEPT
                 !.tx = [ins |-> {},
                         del |-> DeletedIds(l.req.student_id, l.req.course_code,
                                            l.target_date)],
                 !.pc = "u_commit"])
    /\ UNCHANGED <<clock, attendance_log, next_id, tasks, mail_event, nreq, last>>

\* conn.commit(); return {"status": "success"}
ManualCommit(p) ==
    /\ local[p].pc = "u_commit"
    /\ attendance_log' = Apply(local[p].tx)
    /\ next_id' = next_id + Cardinality(local[p].tx.ins)
    /\ db_lock' = IF db_lock = p THEN 0 ELSE db_lock
    /\ Set(p, [local[p] EXCEPT !.tx = NoTx, !.result = ManualSuccess, !.pc = "done"])
    /\ UNCHANGED <<clock, tasks, mail_event, nreq, last>>

\* ------------------------------------------------------------ store failures
\* The failure path without the rollback: what the transaction holds is
\* written although the handler reports the error.
MarkFaultNoRollback(p) ==
    /\ local[p].pc \in {"m_guard", "m_dup", "m_insert", "m_commit"}
    /\ db_lock' = IF db_lock = p THEN 0 ELSE db_lock
    /\ attendance_log' = { r \in attendance_log : r.id \notin local[p].tx.del }
                            \cup local[p].tx.ins
    /\ next_id' = next_id + Cardinality(local[p].tx.ins)
    /\ Set(p, [local[p] EXCEPT !.tx = NoTx, !.result = InternalError, !.pc = "m_notify"])
    /\ UNCHANGED <<clock, tasks, mail_event, nreq, last>>

\* except sqlite3.Error in DatabaseHandler.mark_attendance: a statement or the
\* commit raises (also a write lock that stays busy); the connection rolls back
\* and the handler returns the generic error.
MarkFault(p) ==
    /\ local[p].pc \in {"m_guard", "m_dup", "m_insert", "m_commit"}
    /\ db_lock' = IF db_lock = p THEN 0 ELSE db_lock
    /\ Set(p, [local[p] EXCEPT !.tx = NoTx, !.result = InternalError, !.pc = "m_notify"])
    /\ UNCHANGED <<clock, attendance_log, next_id, tasks, mail_event, nreq, last>>

\* The outcome of manual_update's except branch: the message is str(e).
ManualError == Outcome("error", <<"str(e)">>, NoEmail, "")

\* except Exception in manual_update: the connection is closed without a
\* commit; a task already added stays with the request.
ManualFault(p) ==
    /\ local[p].pc \in {"u_check", "u_insert", "u_delete", "u_commit"}
    /\ db_lock' = IF db_lock = p THEN 0 ELSE db_lock
    /\ Set(p, [local[p] EXCEPT !.tx = NoTx, !.result = ManualError, !.pc = "done"])
    /\ UNCHANGED <<clock, attendance_log, next_id, tasks, mail_event, nreq, last>>

\* ------------------------------------------------------------ notifier
\* if not to_email or "uni.edu" in to_email: return
Skipped(t) == t.to_email = NoEmail \/ HasUniEdu(t.to_email)

\* The notifier with a retry: a task that failed stays queued.
send_email_notification_retry(t, smtp_ok) ==
    /\ tasks' = IF ~Skipped(t) /\ ~smtp_ok THEN tasks ELSE tasks (-) SetToBag({t})
    /\ mail_event' = [task |-> t,
                      outcome |-> IF Skipped(t) THEN "skipped"
                                  ELSE IF smtp_ok THEN "sent" ELSE "logged failure"]
    /\ UNCHANGED <<clock, attendance_log, next_id, db_lock, local, nreq, last>>

\* send_email_notification run as a background task: the message is skipped,
\* accepted by the SMTP server, or the failure is caught and logged.
send_email_notification(t, smtp_ok) ==
    /\ tasks' = tasks (-) SetToBag({t})
    /\ mail_event' = [task |-> t,
                      outcome |-> IF Skipped(t) THEN "skipped"
                                  ELSE IF smtp_ok THEN "sent" ELSE "logged failure"]
    /\ UNCHANGED <<clock, attendance_log, next_id, db_lock, local, nreq, last>>

NotifySkip(t) == Skipped(t) /\ send_email_notification(t, TRUE)
NotifySent(t) == ~Skipped(t) /\ send_email_notification(t, TRUE)
NotifyFailed(t) == ~Skipped(t) /\ send_email_notification(t, FALSE)

\* ------------------------------------------------------------ clock
Tick ==
    /\ \/ /\ clock.i < Len(Instants)
          /\ clock' = [clock EXCEPT !.i = clock.i + 1]
       \/ /\ clock.i = Len(Instants)
          /\ clock.date < MaxDay
          /\ clock' = [date |-> clock.date + 1, i |-> 1]
    /\ UNCHANGED <<attendance_log, next_id, db_lock, local, tasks, mail_event, nreq, last>>

\* ------------------------------------------------------------ initial state
Init ==
    /\ clock = [date |-> 0, i |-> 1]
    /\ attendance_log \in SeedLogs
    /\ next_id = Cardinality(attendance_log) + 1
    /\ db_lock = 0
    /\ local = [p \in Procs |-> Idle]
    /\ tasks = EmptyBag
    /\ mail_event = NoMail
    /\ nreq = 0
    /\ last = NoLast

\* ------------------------------------------------------------ specification
\* A step of the mark call worker p serves.
MarkStep(p) ==
    \/ MarkGuard(p)
    \/ MarkDup(p)
    \/ MarkInsert(p)
    \/ MarkCommit(p)
    \/ MarkNotify(p)

\* A step of the manual edit worker p serves.
ManualStep(p) ==
    \/ ManualIsToday(p)
    \/ ManualTimestamp(p)
    \/ ManualCheck(p)
    \/ ManualInsert(p)
    \/ ManualDelete(p)
    \/ ManualCommit(p)

Notifier ==
    \/ \E t \in BagToSet(tasks) : NotifySkip(t)
    \/ \E t \in BagToSet(tasks) : NotifySent(t)
    \/ \E t \in BagToSet(tasks) : NotifyFailed(t)

\* The dates a manual edit may carry: none (today), the first and the last day.
DateInputs == {NoDate, 0, MaxDay}

\* Concurrent callers: every worker serves requests about one room and one
\* course.  A statement of one worker may fail while another holds the write
\* lock or an open read cursor past the busy timeout ("database is locked").
Next ==
    \/ \E p \in Procs, s \in {"s1", "s2", "s9"} : StartMark(p, s, "Hall_1")
    \/ \E p \in Procs, st \in {"Present", "Absent"}, d \in {NoDate, 0} :
          StartManual(p, "s1", "CS101", st, d)
    \/ \E p \in Procs : MarkStep(p)
    \/ \E p \in Procs : ManualStep(p)
    \/ \E p \in Procs : MarkFault(p)
    \/ \E p \in Procs : ManualFault(p)
    \/ \E p \in Procs : Return(p)
    \/ Notifier
    \/ Tick

Spec == Init /\ [][Next]_vars

\* One caller of /api/attendance/mark that waits for each response before its
\* next request.
NextMarks ==
    \/ \E s \in StudentIds, r \in Rooms : StartMark(1, s, r)
    \/ MarkStep(1)
    \/ ReturnSeq(1)
    \/ Notifier
    \/ Tick

SpecMarks == Init /\ [][NextMarks]_vars

\* The same caller over a store whose statements may fail.
NextMarksFault ==
    \/ \E s \in {"s1", "s2", "s9"} : StartMark(1, s, "Hall_1")
    \/ MarkStep(1)
    \/ ReturnSeq(1)
    \/ Notifier
    \/ Tick
    \/ MarkFault(1)

SpecMarksFault == Init /\ [][NextMarksFault]_vars

\* One caller of /api/attendance/manual that waits for each response before
\* its next request.  The only address a task of these edits carries is the one
\* of s1, which is not institutional: the notifier sends or fails, never skips.
NextEdits ==
    \/ \E s \in {"s1", "s9"}, st \in {"Present", "Absent"}, d \in DateInputs :
          StartManual(1, s, "CS101", st, d)
    \/ ManualStep(1)
    \/ ReturnSeq(1)
    \/ \E t \in BagToSet(tasks) : NotifySent(t)
    \/ \E t \in BagToSet(tasks) : NotifyFailed(t)
    \/ Tick

SpecEdits == Init /\ [][NextEdits]_vars

\* One caller that marks and edits the attendance of s1 today, every successful
\* mark and edit Present scheduling a notification to an address that is not
\* institutional.
NextNotify ==
    \/ StartMark(1, "s1", "Hall_1")
    \/ \E st \in {"Present", "Absent"} : StartManual(1, "s1", "CS101", st, NoDate)
    \/ MarkStep(1)
    \/ ManualStep(1)
    \/ ReturnSeq(1)
    \/ \E t \in BagToSet(tasks) : NotifySent(t)
    \/ \E t \in BagToSet(tasks) : NotifyFailed(t)
    \/ Tick

SpecNotify == Init /\ [][NextNotify]_vars

\* ------------------------------------------------------------ properties
\* The rows of attendance_log of one student, course and calendar day.
KeyRows(student_id, course_code, date) ==
    { r \in attendance_log :
        r.student_id = student_id /\ r.course_code = course_code /\ r.timestamp.date = date }

Exists(student_id) == \E s \in students : s.student_id = student_id
Registered(student_id, course_code) == <<student_id, course_code>> \in registrations

\* Worker p takes a step of its request.
Stepped(p) == local'[p] # local[p]

\* "HH:MM" as seconds since midnight.
Secs(hm) == ((hm[1] * 10 + hm[2]) * 60 + hm[3] * 10 + hm[4]) * 60

\* The schedule windows that cover a room at an instant, at one-second
\* resolution and with both ends included.
CoveringWindows(room_number, now) ==
    { w \in lecture_schedule :
        /\ w.room_number = room_number
        /\ w.day_of_week = DayOfWeek(now.date)
        /\ Secs(w.start_time) <= now.time
        /\ now.time <= Secs(w.end_time) }

\* C1: in every reachable state the store holds at most one attendance record
\* for each (student, course, calendar day).
C1_AtMostOnePerDay ==
    \A r1, r2 \in attendance_log :
        ( /\ r1.student_id = r2.student_id
          /\ r1.course_code = r2.course_code
          /\ r1.timestamp.date = r2.timestamp.date ) => r1 = r2

\* C2: when every worker has answered a mark call of the same existing,
\* registered student for the same course and day, and these calls are the
\* only requests made, found no earlier record and met no failure of the
\* store, exactly one record is stored, exactly one call returned Success and
\* the others AlreadyMarked.
C2_SingleWinner ==
    \A s \in StudentIds, c \in CourseCodes, d \in Days :
        ( /\ Exists(s)
          /\ Registered(s, c)
          /\ nreq = NumProcs
          /\ \A p \in Procs :
                /\ local[p].pc = "done"
                /\ local[p].req.kind = "mark"
                /\ local[p].req.student_id = s
                /\ local[p].active_course.code = c
                /\ local[p].now.date = d
                /\ local[p].result # InternalError
          /\ \A r \in KeyRows(s, c, d) : r.method = "Camera" )
        => /\ Cardinality(KeyRows(s, c, d)) = 1
           /\ Cardinality({ p \in Procs : local[p].result.status = "success" }) = 1
           /\ \A p \in Procs : local[p].result.status \in {"success", "warning"}

\* C3: a mark call answered right after a mark call of the same student that
\* returned Success for the same course on the same calendar day returns
\* AlreadyMarked, and the store holds exactly one record of that student,
\* course and day.
C3_SecondCallAlreadyMarked ==
    \A p \in Procs :
        LET l == local[p] IN
        ( /\ l.pc = "done"
          /\ l.req.kind = "mark"
          /\ l.active_course # NoCourse
          /\ last.kind = "mark"
          /\ last.status = "success"
          /\ last.student_id = l.req.student_id
          /\ last.course_code = l.active_course.code
          /\ last.date = l.now.date )
        => /\ l.result.status = "warning"
           /\ l.result.message[1] = "Already marked:"
           /\ Cardinality(KeyRows(l.req.student_id, l.active_course.code, l.now.date)) = 1

C3_Witness ==
    \E p \in Procs :
        /\ local[p].pc = "done"
        /\ local[p].req.kind = "mark"
        /\ local[p].req.student_id = "s1"
        /\ local[p].active_course.code = "CS101"
        /\ last.kind = "mark"
        /\ last.student_id = "s1"
        /\ last.course_code = "CS101"
        /\ last.status = "success"
        /\ last.date = local[p].now.date
        /\ local[p].result.status = "warning"

\* C4: a mark call for an existing student with no registration in the course
\* resolved for the room never changes the attendance records and ends with
\* NotRegistered.
C4_NotRegisteredWritesNothing ==
    [][ \A p \in Procs :
          ( /\ Stepped(p)
            /\ local'[p].req.kind = "mark"
            /\ local'[p].active_course # NoCourse
            /\ Exists(local'[p].req.student_id)
            /\ ~Registered(local'[p].req.student_id, local'[p].active_course.code) )
          => /\ attendance_log' = attendance_log
             /\ local'[p].pc = "done" =>
                   /\ local'[p].result.status = "error"
                   /\ local'[p].result.message =
                         <<"Not Registered for", local'[p].active_course.code>>
                   /\ local'[p].bg = {} ]_vars

C4_Witness ==
    \E p \in Procs :
        /\ local[p].pc = "done"
        /\ local[p].req.kind = "mark"
        /\ local[p].req.student_id = "s2"
        /\ local[p].active_course.code = "CS101"
        /\ local[p].result.message = <<"Not Registered for", "CS101">>

\* C5 as stated: a mark call with a student id the store does not hold ends
\* with NotFound whatever the schedule is.
C5_NotFoundWhateverSchedule ==
    \A p \in Procs :
        ( /\ local[p].pc = "done"
          /\ local[p].req.kind = "mark"
          /\ ~Exists(local[p].req.student_id) )
        => local[p].result.message = <<"Student ID not found">>

\* C5 amended: a mark call with a student id the store does not hold never
\* changes the attendance records; it ends with NotFound when the resolver
\* found a course for the room, whatever the registrations are, and with
\* NoActiveLecture when the resolver found none.
C5_NotFoundWhenLectureActive ==
    [][ \A p \in Procs :
          ( /\ Stepped(p)
            /\ local'[p].req.kind = "mark"
            /\ ~Exists(local'[p].req.student_id) )
          => /\ attendance_log' = attendance_log
             /\ local'[p].pc = "done" =>
                   /\ local'[p].result.status = "error"
                   /\ local'[p].result.message =
                         IF local'[p].active_course = NoCourse
                         THEN <<"No active lecture found at this time!">>
                         ELSE <<"Student ID not found">>
                   /\ local'[p].bg = {} ]_vars

C5_Witness ==
    \E p \in Procs :
        /\ local[p].pc = "done"
        /\ local[p].req.kind = "mark"
        /\ local[p].req.student_id = "s9"
        /\ local[p].active_course.code = "MATH2"
        /\ ~Registered("s9", "MATH2")
        /\ local[p].result.message = <<"Student ID not found">>

\* C6: a mark call that arrives when no schedule window covers its room at the
\* current day and time ends at once with NoActiveLecture, whoever the student
\* is, and leaves the attendance records unchanged.
C6_NoLectureNoRecord ==
    [][ \A p \in Procs :
          ( /\ local[p].pc = "idle"
            /\ local'[p].req.kind = "mark"
            /\ CoveringWindows(local'[p].req.room_number, Now) = {} )
          => /\ local'[p].pc = "done"
             /\ local'[p].result = NoActiveLecture
             /\ attendance_log' = attendance_log ]_vars

\* C7: the windows the resolver's query selects for a mark call are exactly
\* the windows (of known courses) of the call's room and day of week with
\* start <= time of day <= end at one-second resolution.
C7_SecondResolutionMatch ==
    [][ \A p \in Procs :
          ( /\ local[p].pc = "idle"
            /\ local'[p].req.kind = "mark" )
          => MatchingWindows(local'[p].req.room_number, Now)
               = { w \in CoveringWindows(local'[p].req.room_number, Now) :
                     \E c \in courses : c.course_code = w.course_code } ]_vars

\* C8: a manual edit absent answered right after a successful manual edit of
\* the same student, course and date returns success and leaves no record of
\* that student, course and date; when the edit before it was absent too, its
\* commit changes nothing.
C8_PresentThenAbsent ==
    [][ \A p \in Procs :
          LET l == local[p] IN
          ( /\ l.pc = "u_commit"
            /\ local'[p].pc = "done"
            /\ l.req.status # "Present"
            /\ last.kind = "manual"
            /\ last.status = "success"
            /\ last.student_id = l.req.student_id
            /\ last.course_code = l.req.course_code
            /\ last.date = l.target_date )
          => /\ local'[p].result.status = "success"
             /\ { r \in attendance_log' :
                    /\ r.student_id = l.req.student_id
                    /\ r.course_code = l.req.course_code
                    /\ r.timestamp.date = l.target_date } = {}
             /\ last.edit # "Present" => attendance_log' = attendance_log ]_vars

\* A row was inserted by the edit Present and removed by the edit absent.
C8_Witness ==
    \E p \in Procs :
        /\ local[p].pc = "done"
        /\ local[p].req.kind = "manual"
        /\ local[p].req.status = "Absent"
        /\ local[p].result.status = "success"
        /\ last.kind = "manual"
        /\ last.edit = "Present"
        /\ last.status = "success"
        /\ last.student_id = local[p].req.student_id
        /\ last.date = local[p].target_date
        /\ next_id > Cardinality(attendance_log) + 1
        /\ KeyRows(local[p].req.student_id, "CS101", local[p].target_date) = {}

\* C9: the step of a mark call that sets its outcome to Success adds exactly
\* one row (Present, Camera) of the call's student and resolved course; every
\* other step of a mark call leaves the attendance records unchanged, and a
\* call whose outcome is not Success holds no notification task.
C9_OneRowPerSuccess ==
    [][ \A p \in Procs :
          ( Stepped(p) /\ local'[p].req.kind = "mark" )
          => IF local[p].result.status # "success" /\ local'[p].result.status = "success"
             THEN \E r \in attendance_log' :
                     /\ r \notin attendance_log
                     /\ attendance_log' = attendance_log \cup {r}
                     /\ r.student_id = local'[p].req.student_id
                     /\ r.course_code = local'[p].active_course.code
                     /\ r.status = "Present"
                     /\ r.method = "Camera"
             ELSE /\ attendance_log' = attendance_log
                  /\ local'[p].result.status # "success" => local'[p].bg = {} ]_vars

\* A statement of a mark call failed after the student was found: the call
\* ended in the store error and the records hold nothing of it.
C9_Witness ==
    \E p \in Procs :
        /\ local[p].pc = "done"
        /\ local[p].req.kind = "mark"
        /\ local[p].req.student_id = "s1"
        /\ local[p].result = InternalError
        /\ local[p].student.student_id = "s1"
        /\ KeyRows("s1", local[p].active_course.code, local[p].now.date) = {}

\* C10: a notification that fails leaves the attendance records, every
\* request's outcome and the outcome returned last unchanged, and leaves the
\* queue without the failed task.
C10_NotificationFailureIsolated ==
    [][ ( /\ mail_event'.outcome = "logged failure"
          /\ \/ mail_event' # mail_event
             \/ tasks' # tasks /\ tasks' \sqsubseteq tasks )
        => /\ attendance_log' = attendance_log
           /\ local' = local
           /\ last' = last
           /\ BagIn(mail_event'.task, tasks)
           /\ tasks' = tasks (-) SetToBag({mail_event'.task}) ]_vars

\* The notification of a mark call that returned Success failed and the record
\* of the call is in the store.
C10_Witness ==
    /\ mail_event.outcome = "logged failure"
    /\ last.kind = "mark"
    /\ last.status = "success"
    /\ \E st \in students :
          st.student_id = last.student_id /\ mail_event.task.to_email = st.email
    /\ KeyRows(last.student_id, last.course_code, last.date) # {}

\* The outcome a mark response is, told by the fixed leading words of its message.
OutcomeKind(result) == result.message[1]

\* C11: two mark calls that ended in different outcomes (Success, AlreadyMarked,
\* NotRegistered, NotFound, NoActiveLecture, store error) carry different values
\* of the status field.
C11_StatusTellsOutcomesApart ==
    \A p, q \in Procs :
        ( /\ local[p].pc = "done"
          /\ local[p].req.kind = "mark"
          /\ local[q].pc = "done"
          /\ local[q].req.kind = "mark"
          /\ local[p].result.status = local[q].result.status )
        => OutcomeKind(local[p].result) = OutcomeKind(local[q].result)

\* ------------------------------------------------------------ uncaught failures
\* What the caller gets when an exception leaves a handler: the server's 500.
Escaped == Outcome("500", <<"Internal Server Error">>, NoEmail, "")

\* get_current_course has no try: when its connect or its SELECT raises, the
\* exception leaves the /api/attendance/mark handler before the recorder runs.
ResolveFault(p, student_id, room_number) ==
    /\ local[p].pc = "idle"
    /\ nreq < MaxRequests
    /\ nreq' = nreq + 1
    /\ LET req == [NoReq EXCEPT !.kind = "mark",
                               !.student_id = student_id, !.room_number = room_number]
       IN  Set(p, [Fresh(p, req) EXCEPT !.result = Escaped, !.pc = "done"])
    /\ UNCHANGED <<clock, attendance_log, next_id, db_lock, tasks, mail_event, last>>

\* manual_update connects before its try: when sqlite3.connect raises, the
\* exception leaves the /api/attendance/manual handler.
ConnectFault(p, student_id, course_code, status, date) ==
    /\ local[p].pc = "idle"
    /\ nreq < MaxRequests
    /\ nreq' = nreq + 1
    /\ LET req == [NoReq EXCEPT !.kind = "manual",
                               !.student_id = student_id, !.course_code = course_code,
                               !.status = status, !.date = date]
       IN  Set(p, [Fresh(p, req) EXCEPT !.result = Escaped, !.pc = "done"])
    /\ UNCHANGED <<clock, attendance_log, next_id, db_lock, tasks, mail_event, last>>

\* One caller that marks and edits the attendance of s1 today over a store
\* whose connections and statements may fail.
NextFaults ==
    \/ StartMark(1, "s1", "Hall_1")
    \/ ResolveFault(1, "s1", "Hall_1")
    \/ \E st \in {"Present", "Absent"} : StartManual(1, "s1", "CS101", st, NoDate)
    \/ \E st \in {"Present", "Absent"} : ConnectFault(1, "s1", "CS101", st, NoDate)
    \/ MarkStep(1)
    \/ MarkFault(1)
    \/ ManualStep(1)
    \/ ManualFault(1)
    \/ ReturnSeq(1)
    \/ \E t \in BagToSet(tasks) : NotifySent(t)
    \/ \E t \in BagToSet(tasks) : NotifyFailed(t)
    \/ Tick

SpecFaults == Init /\ [][NextFaults]_vars

\* The store fails in the step worker p takes.
StoreFails(p) ==
    \/ MarkFault(p)
    \/ ManualFault(p)
    \/ \E s \in StudentIds, r \in Rooms : ResolveFault(p, s, r)
    \/ \E s \in StudentIds, c \in CourseCodes, st \in {"Present", "Absent"}, d \in DateInputs :
          ConnectFault(p, s, c, st, d)

\* C12: whenever the store fails in a step of a mark call or of a manual edit,
\* the request gets the error outcome with the fixed generic message: the
\* fault neither leaves the handler nor puts the store's error text in the
\* response.
C12_StoreFaultGenericError ==
    [][ \A p \in Procs : StoreFails(p) => local'[p].result = InternalError ]_vars

\* C13: a response that hands a notification task to the background runner is
\* a Success whose record (Camera for a mark call, Manual for an edit Present)
\* is committed in the store.
C13_NotifyOnlyCommitted ==
    [][ \A p \in Procs :
          LET l == local[p] IN
          ( /\ l.pc = "done"
            /\ local'[p].pc = "idle"
            /\ l.bg # {} )
          => /\ l.result.status = "success"
             /\ \E r \in attendance_log :
                   /\ r.student_id = l.req.student_id
                   /\ r.course_code = IF l.req.kind = "mark" THEN l.active_course.code
                                      ELSE l.req.course_code
                   /\ r.method = IF l.req.kind = "mark" THEN "Camera" ELSE "Manual" ]_vars

\* C14: a manual edit Present takes the given date as target date, or the
\* current date when none is given; the day is today when it equals the current
\* date; the timestamp is the current time when the day is today and 09:00:00
\* on the target date otherwise; its commit adds exactly one row (Present,
\* Manual) with that timestamp when the store holds no row of the student,
\* course and target date, and adds nothing and holds no notification task
\* when it holds one; the outcome is success in both cases.
C14_ManualPresent ==
    [][ \A p \in Procs :
          LET l == local[p]
              m == local'[p]
          IN
          /\ ( l.pc = "idle" /\ m.pc = "u_istoday" )
             => m.target_date = IF m.req.date # NoDate THEN m.req.date ELSE Now.date
          /\ ( l.pc = "u_istoday" /\ m.pc = "u_timestamp" )
             => m.is_today = (l.target_date = Now.date)
          /\ ( l.pc = "u_timestamp" /\ m.pc = "u_check" )
             => m.timestamp = IF l.is_today THEN Now
                              ELSE [date |-> l.target_date, time |-> 9 * 3600]
          /\ ( l.pc = "u_commit" /\ m.pc = "done" /\ l.req.status = "Present" )
             => /\ m.result.status = "success"
                /\ IF KeyRows(l.req.student_id, l.req.course_code, l.target_date) # {}
                   THEN /\ attendance_log' = attendance_log
                        /\ l.bg = {}
                   ELSE \E r \in attendance_log' :
                           /\ r \notin attendance_log
                           /\ attendance_log' = attendance_log \cup {r}
                           /\ r.student_id = l.req.student_id
                           /\ r.course_code = l.req.course_code
                           /\ r.status = "Present"
                           /\ r.method = "Manual"
                           /\ r.timestamp = l.timestamp ]_vars

\* An edit Present for a date that is not today has committed its row, stamped
\* 09:00:00 on that date.
C14_Witness ==
    \E p \in Procs :
        /\ local[p].pc = "done"
        /\ local[p].req.kind = "manual"
        /\ local[p].req.status = "Present"
        /\ local[p].result.status = "success"
        /\ local[p].target_date # Now.date
        /\ ~local[p].is_today
        /\ \E r \in attendance_log :
              /\ r.method = "Manual"
              /\ r.student_id = local[p].req.student_id
              /\ r.timestamp = [date |-> local[p].target_date, time |-> 9 * 3600]

\* One caller that edits and marks the attendance of a student who is not
\* registered for the course of the room (s2) and of an id the store does not
\* hold (s9).  The only address notified is institutional: the notifier skips.
NextGuard ==
    \/ \E s \in {"s2", "s9"} : StartMark(1, s, "Hall_1")
    \/ \E s \in {"s2", "s9"}, st \in {"Present", "Absent"} :
          StartManual(1, s, "CS101", st, NoDate)
    \/ MarkStep(1)
    \/ ManualStep(1)
    \/ ReturnSeq(1)
    \/ \E t \in BagToSet(tasks) : NotifySkip(t)
    \/ Tick

SpecGuard == Init /\ [][NextGuard]_vars

\* C15: a mark call of an id the store does not hold ends with NotFound also
\* when a registration or a same-day record of that id exists, and a mark call
\* of an existing student with no registration in the resolved course ends
\* with NotRegistered, not AlreadyMarked, also when a same-day record of that
\* student and course exists.
C15_GuardOrder ==
    \A p \in Procs :
        LET l == local[p]
            s == l.req.student_id
            c == l.active_course.code
        IN
        ( /\ l.pc = "done"
          /\ l.req.kind = "mark"
          /\ l.active_course # NoCourse )
        => /\ ( ~Exists(s) /\ (Registered(s, c) \/ KeyRows(s, c, l.now.date) # {}) )
              => l.result = NotFound
           /\ ( Exists(s) /\ ~Registered(s, c) /\ KeyRows(s, c, l.now.date) # {} )
              => l.result = NotRegistered(c)

\* A mark call of s2 ended with NotRegistered for CS101 while the store holds
\* the record a manual edit wrote for s2 and CS101 on that day.
C15_Witness ==
    \E p \in Procs :
        /\ local[p].pc = "done"
        /\ local[p].req.kind = "mark"
        /\ local[p].req.student_id = "s2"
        /\ local[p].result = NotRegistered("CS101")
        /\ \E r \in KeyRows("s2", "CS101", local[p].now.date) : r.method = "Manual"

\* The status values of a manual edit: Present, and two that are not exactly it.
EditStatuses == {"Present", "present", "Absent"}

\* A seeded database with rows of two students for the same course and day.
SeedLogsTwoStudents ==
    { {}, { Row(1, "s1", "CS101", [date |-> 0, time |-> NominalTime], "Auto"),
            Row(2, "s3", "CS101", [date |-> 0, time |-> NominalTime], "Auto") } }

InitAbsent ==
    /\ clock = [date |-> 0, i |-> 1]
    /\ attendance_log \in SeedLogsTwoStudents
    /\ next_id = Cardinality(attendance_log) + 1
    /\ db_lock = 0
    /\ local = [p \in Procs |-> Idle]
    /\ tasks = EmptyBag
    /\ mail_event = NoMail
    /\ nreq = 0
    /\ last = NoLast

\* One caller that marks the attendance of s1 and edits it for today with any
\* status, over a store that holds rows of another student too: an edit that
\* deletes meets rows of two students, of two courses and of two days.
NextAbsent ==
    \/ StartMark(1, "s1", "Hall_1")
    \/ \E st \in EditStatuses : StartManual(1, "s1", "CS101", st, NoDate)
    \/ MarkStep(1)
    \/ ManualStep(1)
    \/ ReturnSeq(1)
    \/ \E t \in BagToSet(tasks) : NotifySent(t)
    \/ \E t \in BagToSet(tasks) : NotifyFailed(t)
    \/ Tick

SpecAbsent == InitAbsent /\ [][NextAbsent]_vars

\* C16: the commit of a manual edit whose status is not exactly Present
\* returns success and leaves in the store exactly the rows it held that are
\* not of the edit's student, course and target date.
C16_AbsentRemovesKeyOnly ==
    [][ \A p \in Procs :
          LET l == local[p] IN
          ( /\ l.pc = "u_commit"
            /\ local'[p].pc = "done"
            /\ l.req.status # "Present" )
          => /\ local'[p].result.status = "success"
             /\ attendance_log' =
                   { r \in attendance_log :
                       ~ ( /\ r.student_id = l.req.student_id
                           /\ r.course_code = l.req.course_code
                           /\ r.timestamp.date = l.target_date ) } ]_vars

\* An edit that is not exactly Present has removed the row of its student,
\* course and day (the store has handed out more ids than it holds rows), and
\* the row of another student for the same course and day is still there.
C16_Witness ==
    \E p \in Procs :
        /\ local[p].pc = "done"
        /\ local[p].req.kind = "manual"
        /\ local[p].req.status \in EditStatuses \ {"Present"}
        /\ local[p].result.status = "success"
        /\ KeyRows(local[p].req.student_id, local[p].req.course_code,
                   local[p].target_date) = {}
        /\ next_id > Cardinality(attendance_log) + 1
        /\ \E r \in attendance_log :
              /\ r.student_id # local[p].req.student_id
              /\ r.course_code = local[p].req.course_code
              /\ r.timestamp.date = local[p].target_date

\* ------------------------------------------------------------ overlapping windows
\* One caller of /api/attendance/mark in the room two courses share.
NextOverlap ==
    \/ \E s \in {"s1", "s2"} : StartMark(1, s, OverlapRoom)
    \/ MarkStep(1)
    \/ ReturnSeq(1)
    \/ Notifier
    \/ Tick

SpecOverlap == Init /\ [][NextOverlap]_vars

C18_InsertedDayIsTarget ==
    [][ \A p \in Procs :
          ( /\ local[p].pc = "u_commit"
            /\ local'[p].pc = "done"
            /\ local[p].req.status = "Present" )
          => \A r \in attendance_log' \ attendance_log :
                r.timestamp.date = local[p].target_date ]_vars

\* C19: the row the commit of a mark call adds carries a timestamp inside a
\* schedule window of the row's course in the call's room: same day of week,
\* start <= time of day <= end.
C19_StampInsideWindow ==
    [][ \A p \in Procs :
          ( /\ local[p].pc = "m_commit"
            /\ local'[p].result.status = "success" )
          => \A r \in attendance_log' \ attendance_log :
                \E w \in lecture_schedule :
                    /\ w.course_code = r.course_code
                    /\ w.room_number = local[p].req.room_number
                    /\ w.day_of_week = DayOfWeek(r.timestamp.date)
                    /\ Secs(w.start_time) <= r.timestamp.time
                    /\ r.timestamp.time <= Secs(w.end_time) ]_vars

====
